---- MODULE Spec2Model ----
(***************************************************************************)
(* A model of btcpool-go-modules:                                          *)
(*   - chainSwitcher (src/chainSwitcher/main.go): the chain-switch         *)
(*     decision loop, its audit table and the commands it hands to Kafka;  *)
(*   - the user-chain manager (src/unnamed/part_001): the in-memory        *)
(*     user -> chain map, its Zookeeper write-through and the two          *)
(*     incremental registry fetches.                                       *)
(* The specifications of the module:                                       *)
(*   SpecSwitcher       the decision loop                                  *)
(*   SpecSwitcherNames  the decision loop when the rename map holds empty  *)
(*                      names                                              *)
(*   SpecSwitcherTasks  the decision loop next to readResponse             *)
(*   SpecName           RegularUserName                                    *)
(*   SpecManager        direct calls on the manager, one at a time         *)
(*   SpecIDList         FetchUserIDList passes over arbitrary responses    *)
(*   SpecCoinMap        FetchUserCoinMap passes next to the coin registry  *)
(*   SpecTasks          two tasks calling the manager statement by         *)
(*                      statement, with the RWMutex and other Zookeeper    *)
(*                      clients                                            *)
(*   SpecCron           two cron tasks inside FetchUserIDList              *)
(*   SpecPoll           the FetchUserIDList cron job for ever, next to the *)
(*                      id registry and a store that may be down           *)
(* Each one moves its own variables and leaves the others at their         *)
(* initial value.                                                          *)
(***************************************************************************)
EXTENDS Integers, Sequences, FiniteSets, TLC

VARIABLES
    \* ---- chainSwitcher -------------------------------------------------
    ChainNameMap,      \* configData.ChainNameMap: telemetry key -> chain name
    currentChainName,  \* package variable currentChainName
    commandID,         \* package variable commandID
    sent,              \* the messages handed to controllerProducer.WriteMessages
    audit,             \* the rows inserted through insertStmt
    running,           \* FALSE once glog.Fatal has terminated the process
    oldChainName,      \* local of updateCurrentChain, as of the latest pass
    bestChain,         \* local of updateCurrentChain, as of the latest pass
    coins,             \* chainDispatchRecord.Coins of the latest pass
    passNo,            \* number of iterations of the loop of updateChain
    responses,         \* number of messages readResponse has taken from Kafka
    \* ---- RegularUserName ----------------------------------------------
    userName,          \* the argument of RegularUserName
    caseInsensitive,   \* configData.StratumServerCaseInsensitive
    regularName,       \* RegularUserName(userName)
    regularTwice,      \* RegularUserName(RegularUserName(userName))
    nameStep,          \* how many times RegularUserName has been applied
    \* ---- UserChainManager ---------------------------------------------
    userChainMap,      \* manager.userChainMap: user name -> UserChainInfo
    lastPUID,          \* manager.lastPUID: chain -> largest puid fetched
    zkNodes,           \* the Zookeeper nodes under ZKSwitcherWatchDir
    url,               \* local url of the latest FetchUserIDList call
    body,              \* the response body of the latest FetchUserIDList call
    fetchErr,          \* the value the latest fetch or store call returned
    idCalls,           \* chain -> number of FetchUserIDList calls so far
    observedMax,       \* chain -> largest id in the responses applied so far
    firstChain,        \* user -> chain of the first SetPUID call for the user
    latestID,          \* user -> chain -> puid of the latest SetPUID call
    disturbed,         \* users that SetChain or ReadFromZK has touched
    zkCall,            \* the WriteToZK call the latest operation was, if it was one
    mgrOps,            \* number of manager operations so far
    \* ---- FetchUserCoinMap and the user-coin registry -------------------
    lastRequestDate,   \* manager.lastRequestDate
    coinInterval,      \* configData.FetchUserCoinIntervalSeconds
    regNow,            \* the registry's clock, in seconds
    regCoin,           \* the registry: puname -> chain and second of the change
    coinUrl,           \* last_date of the latest FetchUserCoinMap request
    coinBody,          \* the response body of the latest FetchUserCoinMap call
    lastOKDate,        \* now_date of the latest successful response, if any
    coinCalls,         \* number of FetchUserCoinMap calls so far
    \* ---- the tasks that call the manager concurrently -------------------
    pc,                \* task -> the statement the task executes next
    call,              \* task -> the arguments and locals of its current call
    rwReaders,         \* manager.mutex: task -> number of read locks it holds
    rwWriter,          \* manager.mutex: the task holding the write lock, or "none"
    rwPending,         \* manager.mutex: the tasks blocked in Lock()
    lockLog,           \* the calls that took the write lock, in that order
    extWrites,         \* number of writes other Zookeeper clients have made
    \* ---- the id registry and the store behind the cron job --------------
    regIDs,            \* the id registry: chain -> puname -> puid
    zkUp               \* whether Zookeeper answers the manager's calls

swVars == <<ChainNameMap, currentChainName, commandID, sent, audit, running,
            oldChainName, bestChain, coins, passNo, responses>>

nameVars == <<userName, regularName, regularTwice, nameStep>>

mgrVars == <<userChainMap, lastPUID, zkNodes, url, body, fetchErr, idCalls,
             observedMax, firstChain, latestID, disturbed, zkCall, mgrOps>>

coinVars == <<lastRequestDate, coinInterval, regNow, regCoin, coinUrl, coinBody,
              lastOKDate, coinCalls>>

taskVars == <<pc, call, rwReaders, rwWriter, rwPending, lockLog, extWrites>>

envVars == <<regIDs, zkUp>>

notSwVars == <<nameVars, mgrVars, coinVars, taskVars, envVars, caseInsensitive>>

notNameVars == <<swVars, mgrVars, coinVars, taskVars, envVars, caseInsensitive>>

notMgrVars == <<swVars, nameVars, coinVars, taskVars, envVars, caseInsensitive>>

\* what a step of a task leaves alone besides the map, the store, the id
\* cursor and the task variables
notTaskVars == <<swVars, nameVars, coinVars, envVars, caseInsensitive, url, body, fetchErr,
                 idCalls, observedMax, firstChain, latestID, disturbed, zkCall, mgrOps>>

vars == <<swVars, nameVars, mgrVars, coinVars, taskVars, envVars, caseInsensitive>>

(***************************************************************************)
(* Bounds                                                                  *)
(***************************************************************************)
MaxRate == 2     \* dispatch hashrates range over 0..MaxRate
MaxPass == 3     \* iterations of the decision loop that are explored
MaxNameLen == 3  \* user names have at most MaxNameLen characters
MaxPUID == 2     \* the registry hands out the ids 1..MaxPUID
MaxOps == 4      \* direct calls on the manager that are explored
MaxFetch == 2    \* FetchUserIDList calls that are explored
MaxDate == 2      \* the registry's clock runs over 1..MaxDate
MaxInterval == 2  \* FetchUserCoinIntervalSeconds ranges over 1..MaxInterval
MaxCoinFetch == 2 \* FetchUserCoinMap calls that are explored
MaxExt == 1       \* writes of other Zookeeper clients that are explored
MaxResp == 1     \* messages of the response topic that are explored

(***************************************************************************)
(* chainSwitcher                                                           *)
(***************************************************************************)
ChainKeys == {"A", "B"}             \* keys of the telemetry's coins object
ChainNames == {"chainA", "chainB"}  \* values of the rename map

\* all functions from a subset of S to T
PartialFns(S, T) == UNION {[D -> T] : D \in SUBSET S}

\* all orders in which a Go `range` may visit the keys in S
Orders(S) == {o \in [1..Cardinality(S) -> S] : \A i, j \in 1..Cardinality(S) : o[i] = o[j] => i = j}

\* the value of coins when the fetch or the parse failed
NoCoins == [failed |-> TRUE]

\* the loop of updateCurrentChain over chainDispatchRecord.Coins, visiting the
\* keys in the given order, from the given largeHashrate and bestChain
RECURSIVE ScanCoinsNoGate(_, _, _, _, _)
ScanCoinsNoGate(record, nameMap, order, largeHashrate, best) ==
    IF order = <<>> THEN best
    ELSE LET chain == Head(order) IN
         IF record[chain] > largeHashrate
         THEN IF chain \in DOMAIN nameMap
              THEN ScanCoinsNoGate(record, nameMap, Tail(order), record[chain], nameMap[chain])
              ELSE ScanCoinsNoGate(record, nameMap, Tail(order), record[chain], best)
         ELSE ScanCoinsNoGate(record, nameMap, Tail(order), largeHashrate, best)

\* the loop taking a key whose hashrate equals the largest one so far
RECURSIVE ScanCoinsAtLeast(_, _, _, _, _)
ScanCoinsAtLeast(record, nameMap, order, largeHashrate, best) ==
    IF order = <<>> THEN best
    ELSE LET chain == Head(order) IN
         IF record[chain] >= largeHashrate /\ chain \in DOMAIN nameMap
         THEN ScanCoinsAtLeast(record, nameMap, Tail(order), record[chain], nameMap[chain])
         ELSE ScanCoinsAtLeast(record, nameMap, Tail(order), largeHashrate, best)

RECURSIVE ScanCoins(_, _, _, _, _)
ScanCoins(record, nameMap, order, largeHashrate, best) ==
    IF order = <<>> THEN best
    ELSE LET chain == Head(order) IN
         IF record[chain] > largeHashrate /\ chain \in DOMAIN nameMap
         THEN ScanCoins(record, nameMap, Tail(order), record[chain], nameMap[chain])
         ELSE ScanCoins(record, nameMap, Tail(order), largeHashrate, best)

\* KafkaCommand as built by updateChain
KafkaCommand(id, chain) ==
    [id |-> id, type |-> "sserver_cmd", action |-> "auto_switch_chain", chain_name |-> chain]

\* the row with the previous and the current chain in each other's column
AuditRowSwapped(prev, curr, apiResult) ==
    [prev_chain |-> curr, curr_chain |-> prev, api_result |-> apiResult]

\* the row of insertStmt.Exec(algorithm, prev_chain, curr_chain, api_result)
AuditRow(prev, curr, apiResult) ==
    [prev_chain |-> prev, curr_chain |-> curr, api_result |-> apiResult]

InitSwitcherVars ==
    /\ ChainNameMap \in PartialFns(ChainKeys, ChainNames)
    /\ currentChainName = ""
    /\ commandID = 0
    /\ sent = <<>>
    /\ audit = <<>>
    /\ running = TRUE
    /\ oldChainName = ""
    /\ bestChain = ""
    /\ coins = NoCoins
    /\ passNo = 0
    /\ responses = 0

\* the second half of an iteration of updateChain (lines 160-175), with the
\* command built from the chain name read before updateCurrentChain ran
PublishStale(chain) ==
    IF chain # ""
    THEN /\ commandID' = commandID + 1
         /\ sent' = Append(sent, KafkaCommand(commandID + 1, currentChainName))
    ELSE UNCHANGED <<commandID, sent>>

\* the second half of an iteration of updateChain, the command taking the
\* counter's value before the increment
PublishPostIncrement(chain) ==
    IF chain # ""
    THEN /\ commandID' = commandID + 1
         /\ sent' = Append(sent, KafkaCommand(commandID, chain))
    ELSE UNCHANGED <<commandID, sent>>

\* the second half of an iteration of updateChain without the test of
\* line 160: a command is sent in every iteration
PublishUngated(chain) ==
    /\ commandID' = commandID + 1
    /\ sent' = Append(sent, KafkaCommand(commandID + 1, chain))

\* the second half of an iteration of updateChain: lines 160-175
Publish(chain) ==
    IF chain # ""
    THEN /\ commandID' = commandID + 1
         /\ sent' = Append(sent, KafkaCommand(commandID + 1, chain))
    ELSE UNCHANGED <<commandID, sent>>

\* one iteration of updateChain whose HTTP request, body read or JSON parse
\* fails: updateCurrentChain returns early, the command is still sent
PassFetchFailed ==
    /\ running
    /\ passNo < MaxPass
    /\ passNo' = passNo + 1
    /\ oldChainName' = currentChainName
    /\ bestChain' = ""
    /\ coins' = NoCoins
    /\ Publish(currentChainName)
    /\ UNCHANGED <<ChainNameMap, currentChainName, audit, running, responses>>
    /\ UNCHANGED notSwVars

\* one iteration of updateChain whose telemetry was fetched and parsed and
\* whose audit insert, if any, succeeded
PassFetched ==
    /\ running
    /\ passNo < MaxPass
    /\ \E record \in PartialFns(ChainKeys, 0..MaxRate) :
       \E order \in Orders(DOMAIN record) :
          LET best == ScanCoins(record, ChainNameMap, order, 0, "")
              curr == IF best # "" THEN best ELSE currentChainName
          IN /\ passNo' = passNo + 1
             /\ oldChainName' = currentChainName
             /\ bestChain' = best
             /\ coins' = record
             /\ currentChainName' = curr
             /\ audit' = IF currentChainName # curr
                         THEN Append(audit, AuditRow(currentChainName, curr, record))
                         ELSE audit
             /\ Publish(curr)
             /\ UNCHANGED <<ChainNameMap, running, responses>>
             /\ UNCHANGED notSwVars

\* one iteration of updateChain in which the chain changed and the audit
\* insert failed: glog.Fatal terminates the process before anything is sent
PassAuditFailed ==
    /\ running
    /\ passNo < MaxPass
    /\ \E record \in PartialFns(ChainKeys, 0..MaxRate) :
       \E order \in Orders(DOMAIN record) :
          LET best == ScanCoins(record, ChainNameMap, order, 0, "")
              curr == IF best # "" THEN best ELSE currentChainName
          IN /\ currentChainName # curr
             /\ passNo' = passNo + 1
             /\ oldChainName' = currentChainName
             /\ bestChain' = best
             /\ coins' = record
             /\ currentChainName' = curr
             /\ running' = FALSE
             /\ UNCHANGED <<ChainNameMap, audit, commandID, sent, responses>>
             /\ UNCHANGED notSwVars

NextSwitcher == PassFetchFailed \/ PassFetched \/ PassAuditFailed

\* one iteration of the loop of readResponse: a message of the response
\* topic is taken (or ReadMessage fails), parsed and logged
ReadResponse ==
    /\ running
    /\ responses < MaxResp
    /\ responses' = responses + 1
    /\ UNCHANGED <<ChainNameMap, currentChainName, commandID, sent, audit, running,
                   oldChainName, bestChain, coins, passNo>>
    /\ UNCHANGED notSwVars

\* the two tasks main starts: go readResponse() and updateChain()
NextSwitcherTasks == NextSwitcher \/ ReadResponse

(***************************************************************************)
(* RegularUserName                                                         *)
(* A string is a sequence of one-character strings.                        *)
(***************************************************************************)
Alphabet == {"a", "A", "_"}

Strings(maxLen) == UNION {[1..n -> Alphabet] : n \in 0..maxLen}

\* strings.Contains(s, "_")
ContainsUnderscore(s) == \E i \in 1..Len(s) : s[i] = "_"

\* strings.Index(s, "_"): the 0-based index of the first underscore
IndexUnderscore(s) ==
    (CHOOSE i \in 1..Len(s) : s[i] = "_" /\ \A j \in 1..(i - 1) : s[j] # "_") - 1

\* strings.LastIndex(s, "_"): the 0-based index of the last underscore
LastIndexUnderscore(s) ==
    (CHOOSE i \in 1..Len(s) : s[i] = "_" /\ \A j \in (i + 1)..Len(s) : s[j] # "_") - 1

\* strings.ToLower
ToLower(s) == [i \in 1..Len(s) |-> IF s[i] = "A" THEN "a" ELSE s[i]]

\* RegularUserName cutting at the first underscore instead of the last
RegularUserNameFirst(s, insensitive) ==
    LET cut == IF ContainsUnderscore(s) THEN SubSeq(s, 1, IndexUnderscore(s)) ELSE s
    IN IF insensitive THEN ToLower(cut) ELSE cut

\* UserChainManager.RegularUserName; s[0:k] is SubSeq(s, 1, k)
RegularUserName(s, insensitive) ==
    LET cut == IF ContainsUnderscore(s) THEN SubSeq(s, 1, LastIndexUnderscore(s)) ELSE s
    IN IF insensitive THEN ToLower(cut) ELSE cut

InitNameVars ==
    /\ userName \in Strings(MaxNameLen)
    /\ regularName = <<>>
    /\ regularTwice = <<>>
    /\ nameStep = 0

\* a caller normalises an externally supplied name
Normalize ==
    /\ nameStep = 0
    /\ regularName' = RegularUserName(userName, caseInsensitive)
    /\ nameStep' = 1
    /\ UNCHANGED <<userName, regularTwice>>
    /\ UNCHANGED notNameVars

\* a second caller normalises the already normalised name
NormalizeAgain ==
    /\ nameStep = 1
    /\ regularTwice' = RegularUserName(regularName, caseInsensitive)
    /\ nameStep' = 2
    /\ UNCHANGED <<userName, regularName>>
    /\ UNCHANGED notNameVars

NextName == Normalize \/ NormalizeAgain

(***************************************************************************)
(* UserChainManager                                                        *)
(***************************************************************************)
Chains == {"btc", "eth"}   \* the keys of configData.UserListAPI
SubPools == {"pool1"}

\* the names the id registry may return, before normalisation
PUNames == {<<"a", "_", "a">>, <<"A">>}

\* the user names callers pass in, after normalisation
Users == {RegularUserName(n, caseInsensitive) : n \in PUNames}

\* f with key k set to v (a Go map assignment m[k] = v)
Put(f, k, v) == [x \in DOMAIN f \cup {k} |-> IF x = k THEN v ELSE f[x]]

NewUserChainInfo(name) ==
    [userName |-> name, ChainName |-> "", SubPoolName |-> "", PUIDs |-> <<>>]

\* info, ok := manager.userChainMap[userName]; if !ok { info = New... }
InfoOf(map, name) ==
    IF name \in DOMAIN map THEN map[name] ELSE NewUserChainInfo(name)

\* GetChain
GetChain(map, name) ==
    IF name \in DOMAIN map THEN map[name].ChainName ELSE ""

\* SetPUID with the home chain overwritten by every call
ApplySetPUIDLastWins(map, name, chain, puid) ==
    LET info == InfoOf(map, name)
    IN Put(map, name, [info EXCEPT !.PUIDs = Put(@, chain, puid), !.ChainName = chain])

\* the body of SetPUID under the lock
ApplySetPUID(map, name, chain, puid) ==
    LET info == InfoOf(map, name)
        withID == [info EXCEPT !.PUIDs = Put(@, chain, puid)]
    IN Put(map, name, IF withID.ChainName = ""
                      THEN [withID EXCEPT !.ChainName = chain]
                      ELSE withID)

\* the body of SetChain under the lock
ApplySetChain(map, name, chain) ==
    Put(map, name, [InfoOf(map, name) EXCEPT !.ChainName = chain])

\* the body of SetSubPool under the lock
ApplySetSubPool(map, name, subpool) ==
    Put(map, name, [InfoOf(map, name) EXCEPT !.SubPoolName = subpool])

\* json.Marshal(info): userName is unexported and is not serialised
Marshal(info) ==
    [chain |-> info.ChainName, subpool |-> info.SubPoolName, puids |-> info.PUIDs]

\* json.Unmarshal(jsonBytes, info): chain and subpool are overwritten, the
\* entries of puids are merged into the map that info already has
Unmarshal(json, info) ==
    [info EXCEPT !.ChainName = json.chain,
                 !.SubPoolName = json.subpool,
                 !.PUIDs = [c \in DOMAIN @ \cup DOMAIN json.puids |->
                               IF c \in DOMAIN json.puids THEN json.puids[c] ELSE @[c]]]

\* WriteToZK asking Zookeeper for the node before it looks the user up
ApplyWriteToZKExistsFirst(map, nodes, name, storeUp) ==
    IF ~storeUp THEN [nodes |-> nodes, err |-> "zk error", rpcs |-> <<"exists">>]
    ELSE IF name \notin DOMAIN map
    THEN [nodes |-> nodes, err |-> "not exists", rpcs |-> <<"exists">>]
    ELSE IF name \in DOMAIN nodes
         THEN [nodes |-> Put(nodes, name, [data |-> Marshal(map[name]),
                                           version |-> nodes[name].version + 1]),
               err |-> "nil", rpcs |-> <<"exists", "set">>]
         ELSE [nodes |-> Put(nodes, name, [data |-> Marshal(map[name]), version |-> 0]),
               err |-> "nil", rpcs |-> <<"exists", "create">>]

\* WriteToZK: the store, the error and the Zookeeper calls issued; storeUp
\* says whether the Zookeeper calls succeed
ApplyWriteToZK(map, nodes, name, storeUp) ==
    IF name \notin DOMAIN map
    THEN [nodes |-> nodes, err |-> "not exists", rpcs |-> <<>>]
    ELSE IF ~storeUp THEN [nodes |-> nodes, err |-> "zk error", rpcs |-> <<"exists">>]
    ELSE IF name \in DOMAIN nodes
         THEN [nodes |-> Put(nodes, name, [data |-> Marshal(map[name]),
                                           version |-> nodes[name].version + 1]),
               err |-> "nil", rpcs |-> <<"exists", "set">>]
         ELSE [nodes |-> Put(nodes, name, [data |-> Marshal(map[name]), version |-> 0]),
               err |-> "nil", rpcs |-> <<"exists", "create">>]

\* no WriteToZK call
NoCall == [user |-> <<>>, rpcs |-> <<>>]

\* ---- the observations kept about SetPUID calls --------------------------
NoteSetPUID(hist, name, chain, puid) ==
    [first |-> IF name \in DOMAIN hist.first THEN hist.first
               ELSE Put(hist.first, name, chain),
     latest |-> Put(hist.latest, name,
                    Put(IF name \in DOMAIN hist.latest THEN hist.latest[name] ELSE <<>>,
                        chain, puid))]

RECURSIVE NoteSetPUIDs(_, _)
NoteSetPUIDs(hist, calls) ==
    IF calls = <<>> THEN hist
    ELSE NoteSetPUIDs(NoteSetPUID(hist, Head(calls).user, Head(calls).chain, Head(calls).puid),
                      Tail(calls))

InitManagerVars ==
    /\ userChainMap = <<>>
    /\ lastPUID = <<>>
    /\ zkNodes = <<>>
    /\ url = [chain |-> "", last_id |-> <<>>]
    /\ body = [kind |-> "none"]
    /\ fetchErr = "nil"
    /\ idCalls = [c \in Chains |-> 0]
    /\ observedMax = [c \in Chains |-> 0]
    /\ firstChain = <<>>
    /\ latestID = <<>>
    /\ disturbed = {}
    /\ zkCall = NoCall
    /\ mgrOps = 0

\* ---- direct calls --------------------------------------------------------
SetPUID ==
    /\ mgrOps < MaxOps
    /\ \E name \in Users, chain \in Chains, puid \in 1..MaxPUID :
          LET hist == NoteSetPUID([first |-> firstChain, latest |-> latestID], name, chain, puid)
          IN /\ userChainMap' = ApplySetPUID(userChainMap, name, chain, puid)
             /\ firstChain' = hist.first
             /\ latestID' = hist.latest
    /\ mgrOps' = mgrOps + 1
    /\ zkCall' = NoCall
    /\ UNCHANGED <<lastPUID, zkNodes, url, body, fetchErr, idCalls, observedMax, disturbed>>
    /\ UNCHANGED notMgrVars

SetChain ==
    /\ mgrOps < MaxOps
    /\ \E name \in Users, chain \in Chains :
          /\ userChainMap' = ApplySetChain(userChainMap, name, chain)
          /\ disturbed' = disturbed \cup {name}
    /\ mgrOps' = mgrOps + 1
    /\ zkCall' = NoCall
    /\ UNCHANGED <<lastPUID, zkNodes, url, body, fetchErr, idCalls, observedMax,
                   firstChain, latestID>>
    /\ UNCHANGED notMgrVars

SetSubPool ==
    /\ mgrOps < MaxOps
    /\ \E name \in Users, subpool \in SubPools :
          userChainMap' = ApplySetSubPool(userChainMap, name, subpool)
    /\ mgrOps' = mgrOps + 1
    /\ zkCall' = NoCall
    /\ UNCHANGED <<lastPUID, zkNodes, url, body, fetchErr, idCalls, observedMax,
                   firstChain, latestID, disturbed>>
    /\ UNCHANGED notMgrVars

\* ReadFromZK of a node that exists and is read without error
ReadFromZK ==
    /\ mgrOps < MaxOps
    /\ \E name \in DOMAIN zkNodes :
          /\ userChainMap' = Put(userChainMap, name,
                                 Unmarshal(zkNodes[name].data, InfoOf(userChainMap, name)))
          /\ disturbed' = disturbed \cup {name}
    /\ fetchErr' = "nil"
    /\ mgrOps' = mgrOps + 1
    /\ zkCall' = NoCall
    /\ UNCHANGED <<lastPUID, zkNodes, url, body, idCalls, observedMax, firstChain, latestID>>
    /\ UNCHANGED notMgrVars

\* ReadFromZK whose Get fails (no node, or the store is down): it returns
\* before it takes the lock
ReadFromZKFailed ==
    /\ mgrOps < MaxOps
    /\ fetchErr' = "zk error"
    /\ mgrOps' = mgrOps + 1
    /\ zkCall' = NoCall
    /\ UNCHANGED <<userChainMap, lastPUID, zkNodes, url, body, idCalls, observedMax,
                   firstChain, latestID, disturbed>>
    /\ UNCHANGED notMgrVars

WriteToZK ==
    /\ mgrOps < MaxOps
    /\ \E name \in Users, storeUp \in BOOLEAN :
          LET res == ApplyWriteToZK(userChainMap, zkNodes, name, storeUp)
          IN /\ zkNodes' = res.nodes
             /\ fetchErr' = res.err
             /\ zkCall' = [user |-> name, rpcs |-> res.rpcs]
    /\ mgrOps' = mgrOps + 1
    /\ UNCHANGED <<userChainMap, lastPUID, url, body, idCalls, observedMax,
                   firstChain, latestID, disturbed>>
    /\ UNCHANGED notMgrVars

\* ---- FetchUserIDList ---------------------------------------------------
\* the response bodies of the id registry: the transport failed, the body is
\* not JSON of either shape, data is a keyed mapping, or data is []
IDListBodies ==
    {[kind |-> "httpfail"], [kind |-> "malformed"]}
    \cup {[kind |-> "keyed", err_no |-> 0, data |-> d] :
             d \in PartialFns(PUNames, 1..MaxPUID)}
    \cup {[kind |-> "keyed", err_no |-> 1, data |-> d] :
             d \in PartialFns(PUNames, {1})}
    \cup {[kind |-> "empty", err_no |-> e] : e \in {0, 1}}

\* json.Unmarshal(body, userIDMapResponse): an array cannot be decoded into
\* Data map[string]int32
UnmarshalIDMap(b) ==
    IF b.kind = "keyed"
    THEN [ok |-> TRUE, ErrNo |-> b.err_no, Data |-> b.data]
    ELSE [ok |-> FALSE, ErrNo |-> 0, Data |-> <<>>]

\* the fallback parse rejecting every body that the first parse rejected
UnmarshalIDMapEmptyStrict(b) ==
    [ok |-> FALSE, ErrNo |-> 0]

\* json.Unmarshal(body, userIDMapEmptyResponse), reached when the first
\* parse failed: Data []interface{} accepts the array
UnmarshalIDMapEmpty(b) ==
    IF b.kind = "empty"
    THEN [ok |-> TRUE, ErrNo |-> b.err_no]
    ELSE [ok |-> FALSE, ErrNo |-> 0]

\* the cursor taking the id of the latest pair instead of the largest
AdvanceCursorLatest(last, puid) == puid

\* if puid > manager.lastPUID[chain] { manager.lastPUID[chain] = puid }
AdvanceCursor(last, puid) == IF puid > last THEN puid ELSE last

\* the SetPUID calls of the loop over userIDMapResponse.Data, in the order
\* in which range visits the keys
IDListCalls(data, order, chain) ==
    [i \in 1..Len(order) |->
        [user |-> RegularUserName(order[i], caseInsensitive),
         chain |-> chain, puid |-> data[order[i]]]]

\* the loop of FetchUserIDList over the calls, from the state st
RECURSIVE FetchLoop(_, _, _, _, _)
FetchLoop(st, calls, chain, update, storeUp) ==
    IF calls = <<>> THEN st
    ELSE LET c == Head(calls)
             map2 == ApplySetPUID(st.map, c.user, chain, c.puid)
             last2 == Put(st.last, chain, AdvanceCursor(st.last[chain], c.puid))
             nodes2 == IF update
                       THEN ApplyWriteToZK(map2, st.nodes, c.user, storeUp).nodes
                       ELSE st.nodes
         IN FetchLoop([map |-> map2, last |-> last2, nodes |-> nodes2],
                      Tail(calls), chain, update, storeUp)

\* the largest element of a non-empty set of numbers
SetMax(S) == CHOOSE x \in S : \A y \in S : y <= x

\* the largest id of a response, or prev when it is larger or there is none
MaxObserved(prev, data) ==
    SetMax({prev} \cup {data[n] : n \in DOMAIN data})

\* the value Go reads from manager.lastPUID[chain]: 0 for a missing key
LastPUIDValue(last, chain) == IF chain \in DOMAIN last THEN last[chain] ELSE 0

\* one call of FetchUserIDList(chain, true), as RunFetchUserIDListCronJob
\* makes it; storeUp says whether the Zookeeper calls of the pass succeed
\* (a pass that does not reach WriteToZK is explored with storeUp only)
FetchUserIDList ==
    /\ idCalls["btc"] + idCalls["eth"] < MaxFetch
    /\ \E chain \in Chains, b \in IDListBodies, storeUp \in BOOLEAN :
          LET update == TRUE
              hadCursor == chain \in DOMAIN lastPUID
              last0 == IF hadCursor THEN lastPUID ELSE Put(lastPUID, chain, 0)
              first == UnmarshalIDMap(b)
              second == UnmarshalIDMapEmpty(b)
              failure == IF b.kind = "httpfail" THEN "HTTP Request Failed"
                         ELSE IF ~first.ok /\ ~second.ok THEN "Parse Result Failed"
                         ELSE IF ~first.ok THEN "no new user"
                         ELSE IF first.ErrNo # 0 THEN "API Returned a Error"
                         ELSE "none"
          IN /\ url' = [chain |-> chain,
                        last_id |-> IF hadCursor THEN <<lastPUID[chain]>> ELSE <<>>]
             /\ body' = b
             /\ idCalls' = [idCalls EXCEPT ![chain] = @ + 1]
             /\ IF failure # "none"
                THEN /\ storeUp
                     /\ fetchErr' = IF failure = "no new user" THEN "nil" ELSE failure
                     /\ lastPUID' = last0
                     /\ UNCHANGED <<userChainMap, zkNodes, observedMax, firstChain, latestID>>
                ELSE \E order \in Orders(DOMAIN first.Data) :
                        /\ storeUp \/ order # <<>>
                        /\ LET calls == IDListCalls(first.Data, order, chain)
                               end == FetchLoop([map |-> userChainMap, last |-> last0,
                                                 nodes |-> zkNodes],
                                                calls, chain, update, storeUp)
                               hist == NoteSetPUIDs([first |-> firstChain,
                                                     latest |-> latestID], calls)
                           IN /\ fetchErr' = "nil"
                              /\ userChainMap' = end.map
                              /\ lastPUID' = end.last
                              /\ zkNodes' = end.nodes
                              /\ observedMax' = [observedMax EXCEPT
                                                    ![chain] = MaxObserved(@, first.Data)]
                              /\ firstChain' = hist.first
                              /\ latestID' = hist.latest
    /\ UNCHANGED <<disturbed, zkCall, mgrOps>>
    /\ UNCHANGED notMgrVars

NextIDList == FetchUserIDList

\* ---- FetchUserCoinMap -------------------------------------------------
\* the request without the subtraction of the polling interval
CoinMapURLNoOverlap(last, interval) ==
    IF last > 0 THEN <<last>> ELSE <<>>

\* the last_date parameter of the request: none before the first success,
\* lastRequestDate - FetchUserCoinIntervalSeconds afterwards
CoinMapURL(last, interval) ==
    IF last > 0 THEN <<last - interval>> ELSE <<>>

\* the punames the registry returns for a request: all of them without
\* last_date, else those changed after last_date (from last_date on when
\* the registry counts the second of last_date in)
ChangedSince(reg, lastDate, inclusive) ==
    {u \in DOMAIN reg :
        \/ lastDate = <<>>
        \/ reg[u].date > lastDate[1]
        \/ inclusive /\ reg[u].date = lastDate[1]}

\* the response bodies of the user-coin registry to a request: the transport
\* failed, the body is not JSON, err_no is not 0, or the changes since
\* last_date with the registry's clock as now_date
CoinMapBodies(reg, now, lastDate) ==
    {[kind |-> "httpfail"], [kind |-> "malformed"],
     [kind |-> "json", err_no |-> 1, now_date |-> now, user_coin |-> <<>>]}
    \cup {[kind |-> "json", err_no |-> 0, now_date |-> now,
           user_coin |-> [u \in ChangedSince(reg, lastDate, inclusive) |-> reg[u].chain]] :
             inclusive \in BOOLEAN}

\* the SetChain calls of the loop over userCoinMapResponse.Data.UserCoin, in
\* the order in which range visits the keys
CoinMapCalls(data, order) ==
    [i \in 1..Len(order) |->
        [user |-> RegularUserName(order[i], caseInsensitive), chain |-> data[order[i]]]]

\* the loop of FetchUserCoinMap over the calls, from the state st
RECURSIVE CoinLoop(_, _, _, _)
CoinLoop(st, calls, update, storeUp) ==
    IF calls = <<>> THEN st
    ELSE LET c == Head(calls)
             map2 == ApplySetChain(st.map, c.user, c.chain)
             nodes2 == IF update
                       THEN ApplyWriteToZK(map2, st.nodes, c.user, storeUp).nodes
                       ELSE st.nodes
         IN CoinLoop([map |-> map2, nodes |-> nodes2], Tail(calls), update, storeUp)

InitCoinVars ==
    /\ lastRequestDate = 0
    /\ coinInterval \in 1..MaxInterval
    /\ regNow = 1
    /\ regCoin = <<>>
    /\ coinUrl = <<>>
    /\ coinBody = [kind |-> "none"]
    /\ lastOKDate = <<>>
    /\ coinCalls = 0

\* one call of FetchUserCoinMap(true), as RunFetchUserCoinMapCronJob makes
\* it; storeUp says whether the Zookeeper calls of the pass succeed
FetchUserCoinMap ==
    /\ coinCalls < MaxCoinFetch
    /\ LET lastDate == CoinMapURL(lastRequestDate, coinInterval) IN
       \E b \in CoinMapBodies(regCoin, regNow, lastDate), storeUp \in BOOLEAN :
          LET update == TRUE
              failure == IF b.kind = "httpfail" THEN "HTTP Request Failed"
                         ELSE IF b.kind = "malformed" THEN "Parse Result Failed"
                         ELSE IF b.err_no # 0 THEN "API Returned a Error"
                         ELSE "none"
          IN /\ coinUrl' = lastDate
             /\ coinBody' = b
             /\ coinCalls' = coinCalls + 1
             /\ IF failure # "none"
                THEN /\ storeUp
                     /\ fetchErr' = failure
                     /\ UNCHANGED <<lastRequestDate, lastOKDate, userChainMap, zkNodes,
                                    disturbed>>
                ELSE \E order \in Orders(DOMAIN b.user_coin) :
                        /\ storeUp \/ order # <<>>
                        /\ LET calls == CoinMapCalls(b.user_coin, order)
                               end == CoinLoop([map |-> userChainMap, nodes |-> zkNodes],
                                               calls, update, storeUp)
                           IN /\ fetchErr' = "nil"
                              /\ lastRequestDate' = b.now_date
                              /\ lastOKDate' = <<b.now_date>>
                              /\ userChainMap' = end.map
                              /\ zkNodes' = end.nodes
                              /\ disturbed' = disturbed \cup
                                                 {calls[i].user : i \in 1..Len(calls)}
    /\ UNCHANGED <<coinInterval, regNow, regCoin>>
    /\ UNCHANGED <<lastPUID, url, body, idCalls, observedMax, firstChain, latestID,
                   zkCall, mgrOps>>
    /\ UNCHANGED <<swVars, nameVars, taskVars, envVars, caseInsensitive>>

\* the registry records that a user mines another chain, in the current
\* second of its clock
RegistryChange ==
    /\ \E u \in PUNames, c \in Chains :
          /\ u \in DOMAIN regCoin => regCoin[u].chain # c
          /\ regCoin' = Put(regCoin, u, [chain |-> c, date |-> regNow])
    /\ UNCHANGED <<lastRequestDate, coinInterval, regNow, coinUrl, coinBody,
                   lastOKDate, coinCalls>>
    /\ UNCHANGED <<swVars, nameVars, mgrVars, taskVars, envVars, caseInsensitive>>

\* a second passes on the registry's clock
RegistryTick ==
    /\ regNow < MaxDate
    /\ regNow' = regNow + 1
    /\ UNCHANGED <<lastRequestDate, coinInterval, regCoin, coinUrl, coinBody,
                   lastOKDate, coinCalls>>
    /\ UNCHANGED <<swVars, nameVars, mgrVars, taskVars, envVars, caseInsensitive>>

NextCoinMap == FetchUserCoinMap \/ RegistryChange \/ RegistryTick

\* ---- the cron job of FetchUserIDList against the id registry ---------------
\* the id registry hands the next id of a chain to a puname
RegisterUser ==
    /\ \E ch \in Chains, n \in PUNames :
          /\ n \notin DOMAIN regIDs[ch]
          /\ Cardinality(DOMAIN regIDs[ch]) < MaxPUID
          /\ regIDs' = [regIDs EXCEPT ![ch] = Put(@, n, Cardinality(DOMAIN @) + 1)]
    /\ UNCHANGED zkUp
    /\ UNCHANGED <<swVars, nameVars, mgrVars, coinVars, taskVars, caseInsensitive>>

\* Zookeeper stops answering, or answers again
StoreFlips ==
    /\ zkUp' = ~zkUp
    /\ UNCHANGED regIDs
    /\ UNCHANGED <<swVars, nameVars, mgrVars, coinVars, taskVars, caseInsensitive>>

\* the body the id registry answers a request with: the pairs of the chain
\* with an id above last_id, all of them without last_id; data is [] when
\* there is none
RegistryBody(reg, lastID) ==
    LET names == {n \in DOMAIN reg : lastID = <<>> \/ reg[n] > lastID[1]} IN
    IF names = {} THEN [kind |-> "empty", err_no |-> 0]
    ELSE [kind |-> "keyed", err_no |-> 0, data |-> [n \in names |-> reg[n]]]

\* one iteration of RunFetchUserIDListCronJob: FetchUserIDList(chain, true)
\* answered by the id registry, its WriteToZK calls answered by Zookeeper as
\* it is; the iterations go on for ever and are not counted in idCalls
PollIDList(chain) ==
    LET hadCursor == chain \in DOMAIN lastPUID
        last0 == IF hadCursor THEN lastPUID ELSE Put(lastPUID, chain, 0)
        lastID == IF hadCursor THEN <<lastPUID[chain]>> ELSE <<>>
        b == RegistryBody(regIDs[chain], lastID)
        first == UnmarshalIDMap(b)
    IN /\ url' = [chain |-> chain, last_id |-> lastID]
       /\ body' = b
       /\ fetchErr' = "nil"
       /\ IF ~first.ok
          THEN /\ lastPUID' = last0
               /\ UNCHANGED <<userChainMap, zkNodes, observedMax, firstChain, latestID>>
          ELSE \E order \in Orders(DOMAIN first.Data) :
                  LET calls == IDListCalls(first.Data, order, chain)
                      end == FetchLoop([map |-> userChainMap, last |-> last0,
                                        nodes |-> zkNodes], calls, chain, TRUE, zkUp)
                      hist == NoteSetPUIDs([first |-> firstChain, latest |-> latestID],
                                           calls)
                  IN /\ userChainMap' = end.map
                     /\ lastPUID' = end.last
                     /\ zkNodes' = end.nodes
                     /\ observedMax' = [observedMax EXCEPT
                                           ![chain] = MaxObserved(@, first.Data)]
                     /\ firstChain' = hist.first
                     /\ latestID' = hist.latest
       /\ UNCHANGED <<idCalls, disturbed, zkCall, mgrOps>>
       /\ UNCHANGED envVars
       /\ UNCHANGED <<swVars, nameVars, coinVars, taskVars, caseInsensitive>>

NextPoll == RegisterUser \/ StoreFlips \/ \E chain \in Chains : PollIDList(chain)

(***************************************************************************)
(* The manager under concurrent callers                                    *)
(***************************************************************************)
\* the tasks that call the manager: HTTP handlers, watchers and cron jobs
Tasks == {"t1", "t2"}

NoJSON == [chain |-> "", subpool |-> "", puids |-> <<>>]

NoStat == [exists |-> FALSE, version |-> -1]

\* a task outside any call
NoArgs ==
    [op |-> "none", outer |-> "none", user |-> <<>>, chain |-> "", puid |-> 0,
     subpool |-> "", found |-> FALSE, json |-> NoJSON, stat |-> NoStat, err |-> "nil",
     visited |-> {}, todo |-> <<>>]

\* the call of a task once it has returned err: its locals are gone
Returned(c, err) ==
    [NoArgs EXCEPT !.op = c.op, !.outer = c.outer, !.user = c.user, !.chain = c.chain,
                   !.puid = c.puid, !.subpool = c.subpool, !.err = err]

\* ---- sync.RWMutex ------------------------------------------------------
HoldsLock(t) == rwWriter = t \/ rwReaders[t] > 0

\* RLock returns when no writer holds the lock and none is blocked in Lock()
CanRLock == rwWriter = "none" /\ rwPending = {}

\* Lock returning while another task holds the write lock
CanLockAmongWriters == \A u \in Tasks : rwReaders[u] = 0

\* Lock returns when no task holds the lock in either mode
CanLock == rwWriter = "none" /\ \A u \in Tasks : rwReaders[u] = 0

RUnlock(t, n) == rwReaders' = [rwReaders EXCEPT ![t] = @ - n]

\* ---- the Zookeeper calls of the manager ----------------------------------
\* zookeeper.Exists(zkPath)
ZkExists(nodes, name) ==
    IF name \in DOMAIN nodes
    THEN [exists |-> TRUE, version |-> nodes[name].version]
    ELSE NoStat

\* zookeeper.Set(zkPath, data, version): a conditional set
ZkSet(nodes, name, data, version) ==
    IF name \notin DOMAIN nodes THEN [nodes |-> nodes, err |-> "zk: node does not exist"]
    ELSE IF version # -1 /\ version # nodes[name].version
    THEN [nodes |-> nodes, err |-> "zk: version conflict"]
    ELSE [nodes |-> Put(nodes, name, [data |-> data, version |-> nodes[name].version + 1]),
          err |-> "nil"]

\* zookeeper.Create(zkPath, data, 0, acl)
ZkCreate(nodes, name, data) ==
    IF name \in DOMAIN nodes THEN [nodes |-> nodes, err |-> "zk: node already exists"]
    ELSE [nodes |-> Put(nodes, name, [data |-> data, version |-> 0]), err |-> "nil"]

\* the Set of WriteToZK not conditional on the version
SetVersionAny(stat) == -1

\* the version WriteToZK hands to Set: stat.Version of its Exists call
SetVersion(stat) == stat.version

\* ---- the calls that take the write lock ----------------------------------
\* the entry of lockLog for the call of a task
LogEntry(c) ==
    [op |-> c.op, user |-> c.user, chain |-> c.chain, puid |-> c.puid,
     subpool |-> c.subpool, json |-> c.json]

\* the map after the assignments of a call that holds the write lock
ApplyCall(map, c) ==
    IF c.op = "SetPUID" THEN ApplySetPUID(map, c.user, c.chain, c.puid)
    ELSE IF c.op = "SetChain" THEN ApplySetChain(map, c.user, c.chain)
    ELSE IF c.op = "SetSubPool" THEN ApplySetSubPool(map, c.user, c.subpool)
    ELSE Put(map, c.user, Unmarshal(c.json, InfoOf(map, c.user)))

\* a task calls SetPUID, SetChain or SetSubPool: the call blocks in Lock()
CallSet(t) ==
    /\ pc[t] = "idle"
    /\ \E c \in {[NoArgs EXCEPT !.op = "SetPUID", !.user = u, !.chain = ch, !.puid = p] :
                    u \in Users, ch \in Chains, p \in 1..MaxPUID}
             \cup {[NoArgs EXCEPT !.op = "SetChain", !.user = u, !.chain = ch] :
                    u \in Users, ch \in Chains}
             \cup {[NoArgs EXCEPT !.op = "SetSubPool", !.user = u, !.subpool = sp] :
                    u \in Users, sp \in SubPools} :
          call' = [call EXCEPT ![t] = c]
    /\ pc' = [pc EXCEPT ![t] = "lock"]
    /\ rwPending' = rwPending \cup {t}
    /\ UNCHANGED <<userChainMap, zkNodes, lastPUID, rwReaders, rwWriter, lockLog, extWrites>>
    /\ UNCHANGED notTaskVars

\* a task calls ReadFromZK
CallReadFromZK(t) ==
    /\ pc[t] = "idle"
    /\ \E u \in Users : call' = [call EXCEPT ![t] = [NoArgs EXCEPT !.op = "ReadFromZK", !.user = u]]
    /\ pc' = [pc EXCEPT ![t] = "get"]
    /\ UNCHANGED <<userChainMap, zkNodes, lastPUID, rwReaders, rwWriter, rwPending, lockLog,
                   extWrites>>
    /\ UNCHANGED notTaskVars

\* ReadFromZK, line 85: zookeeper.Get; an error returns it to the caller
ZkGet(t) ==
    /\ pc[t] = "get"
    /\ \E storeUp \in BOOLEAN :
          IF storeUp /\ call[t].user \in DOMAIN zkNodes
          THEN /\ call' = [call EXCEPT ![t].json = zkNodes[call[t].user].data]
               /\ pc' = [pc EXCEPT ![t] = "request"]
          ELSE /\ call' = [call EXCEPT ![t] = Returned(@, "zk error")]
               /\ pc' = [pc EXCEPT ![t] = "done"]
    /\ UNCHANGED <<userChainMap, zkNodes, lastPUID, rwReaders, rwWriter, rwPending, lockLog,
                   extWrites>>
    /\ UNCHANGED notTaskVars

\* ReadFromZK, line 91: the call blocks in Lock()
RequestLock(t) ==
    /\ pc[t] = "request"
    /\ pc' = [pc EXCEPT ![t] = "lock"]
    /\ rwPending' = rwPending \cup {t}
    /\ UNCHANGED <<userChainMap, zkNodes, lastPUID, call, rwReaders, rwWriter, lockLog,
                   extWrites>>
    /\ UNCHANGED notTaskVars

\* mutex.Lock() returns
Lock(t) ==
    /\ pc[t] = "lock"
    /\ CanLock
    /\ rwWriter' = t
    /\ rwPending' = rwPending \ {t}
    /\ lockLog' = Append(lockLog, LogEntry(call[t]))
    /\ pc' = [pc EXCEPT ![t] = "lookup"]
    /\ UNCHANGED <<userChainMap, zkNodes, lastPUID, call, rwReaders, extWrites>>
    /\ UNCHANGED notTaskVars

\* info, ok := manager.userChainMap[userName]
Lookup(t) ==
    /\ pc[t] = "lookup"
    /\ call' = [call EXCEPT ![t].found = call[t].user \in DOMAIN userChainMap]
    /\ pc' = [pc EXCEPT ![t] = "assign"]
    /\ UNCHANGED <<userChainMap, zkNodes, lastPUID, rwReaders, rwWriter, rwPending, lockLog,
                   extWrites>>
    /\ UNCHANGED notTaskVars

\* the rest of the call: a new record is stored if there was none, the
\* fields are assigned, the deferred Unlock runs; SetPUID called by
\* FetchUserIDList returns into its loop
Assign(t) ==
    /\ pc[t] = "assign"
    /\ LET base == IF call[t].found THEN userChainMap
                   ELSE Put(userChainMap, call[t].user, NewUserChainInfo(call[t].user))
       IN userChainMap' = ApplyCall(base, call[t])
    /\ rwWriter' = IF rwWriter = t THEN "none" ELSE rwWriter
    /\ IF call[t].outer = "FetchUserIDList"
       THEN /\ pc' = [pc EXCEPT ![t] = "advance"]
            /\ call' = call
       ELSE /\ pc' = [pc EXCEPT ![t] = "done"]
            /\ call' = [call EXCEPT ![t] = Returned(@, "nil")]
    /\ UNCHANGED <<zkNodes, lastPUID, rwReaders, rwPending, lockLog, extWrites>>
    /\ UNCHANGED notTaskVars

\* ---- WriteToZK and FlushAllToZK ------------------------------------------
\* a task calls WriteToZK or FlushAllToZK: the call blocks in RLock()
CallWrite(t) ==
    /\ pc[t] = "idle"
    /\ \E c \in {[NoArgs EXCEPT !.op = "WriteToZK", !.user = u] : u \in Users}
             \cup {[NoArgs EXCEPT !.op = "FlushAllToZK"]} :
          call' = [call EXCEPT ![t] = c]
    /\ pc' = [pc EXCEPT ![t] = "rlock"]
    /\ UNCHANGED <<userChainMap, zkNodes, lastPUID, rwReaders, rwWriter, rwPending, lockLog,
                   extWrites>>
    /\ UNCHANGED notTaskVars

\* mutex.RLock() returns, in WriteToZK (line 112) or FlushAllToZK (line 143)
RLock(t) ==
    /\ pc[t] = "rlock"
    /\ CanRLock
    /\ rwReaders' = [rwReaders EXCEPT ![t] = @ + 1]
    /\ pc' = [pc EXCEPT ![t] = IF call[t].op = "FlushAllToZK" THEN "range" ELSE "wlookup"]
    /\ UNCHANGED <<userChainMap, zkNodes, lastPUID, call, rwWriter, rwPending, lockLog,
                   extWrites>>
    /\ UNCHANGED notTaskVars

\* FlushAllToZK, lines 146-153: the loop calls WriteToZK for the next user,
\* or has visited them all and returns through the deferred RUnlock
Range(t) ==
    /\ pc[t] = "range"
    /\ LET rest == DOMAIN userChainMap \ call[t].visited IN
       IF rest = {}
       THEN /\ RUnlock(t, 1)
            /\ pc' = [pc EXCEPT ![t] = "done"]
            /\ call' = [call EXCEPT ![t] = Returned(@, "nil")]
       ELSE /\ \E u \in rest :
                  call' = [call EXCEPT ![t] = [@ EXCEPT !.op = "WriteToZK",
                                                        !.outer = "FlushAllToZK",
                                                        !.user = u,
                                                        !.visited = @ \cup {u}]]
            /\ pc' = [pc EXCEPT ![t] = "rlock"]
            /\ rwReaders' = rwReaders
    /\ UNCHANGED <<userChainMap, zkNodes, lastPUID, rwWriter, rwPending, lockLog, extWrites>>
    /\ UNCHANGED notTaskVars

\* WriteToZK returns err through its deferred RUnlock: to the caller of the
\* manager, into the loop of FlushAllToZK (which returns a non-nil err
\* through its own deferred RUnlock), or into the loop of FetchUserIDList
\* (which logs err and goes on with the next pair, if any)
ReturnFromWrite(t, err) ==
    LET c == call[t] IN
    IF c.outer = "FlushAllToZK"
    THEN IF err # "nil"
         THEN /\ RUnlock(t, 2)
              /\ call' = [call EXCEPT ![t] = Returned(@, err)]
              /\ pc' = [pc EXCEPT ![t] = "done"]
              /\ rwPending' = rwPending
         ELSE /\ RUnlock(t, 1)
              /\ call' = [call EXCEPT ![t].op = "FlushAllToZK"]
              /\ pc' = [pc EXCEPT ![t] = "range"]
              /\ rwPending' = rwPending
    ELSE IF c.outer = "FetchUserIDList" /\ Len(c.todo) > 1
    THEN /\ RUnlock(t, 1)
         /\ call' = [call EXCEPT ![t] = [@ EXCEPT !.op = "SetPUID",
                                                  !.user = c.todo[2].user,
                                                  !.puid = c.todo[2].puid,
                                                  !.todo = Tail(@)]]
         /\ pc' = [pc EXCEPT ![t] = "lock"]
         /\ rwPending' = rwPending \cup {t}
    ELSE /\ RUnlock(t, 1)
         /\ call' = [call EXCEPT ![t] = Returned(@, IF c.outer = "none" THEN err ELSE "nil")]
         /\ pc' = [pc EXCEPT ![t] = "done"]
         /\ rwPending' = rwPending

\* WriteToZK, lines 114-123: the lookup and json.Marshal
WLookup(t) ==
    /\ pc[t] = "wlookup"
    /\ IF call[t].user \in DOMAIN userChainMap
       THEN /\ call' = [call EXCEPT ![t].json = Marshal(userChainMap[call[t].user])]
            /\ pc' = [pc EXCEPT ![t] = "exists"]
            /\ UNCHANGED <<rwReaders, rwPending>>
       ELSE ReturnFromWrite(t, "not exists")
    /\ UNCHANGED <<userChainMap, zkNodes, lastPUID, rwWriter, lockLog, extWrites>>
    /\ UNCHANGED notTaskVars

\* WriteToZK, lines 125-128: zookeeper.Exists
Exists(t) ==
    /\ pc[t] = "exists"
    /\ \E storeUp \in BOOLEAN :
          IF storeUp
          THEN /\ call' = [call EXCEPT ![t].stat = ZkExists(zkNodes, call[t].user)]
               /\ pc' = [pc EXCEPT ![t] = "write"]
               /\ UNCHANGED <<rwReaders, rwPending>>
          ELSE ReturnFromWrite(t, "zk error")
    /\ UNCHANGED <<userChainMap, zkNodes, lastPUID, rwWriter, lockLog, extWrites>>
    /\ UNCHANGED notTaskVars

\* WriteToZK, lines 129-133: zookeeper.Set with the version of Exists, or
\* zookeeper.Create
Write(t) ==
    /\ pc[t] = "write"
    /\ \E storeUp \in BOOLEAN :
          LET c == call[t]
              res == IF ~storeUp THEN [nodes |-> zkNodes, err |-> "zk error"]
                     ELSE IF c.stat.exists
                     THEN ZkSet(zkNodes, c.user, c.json, SetVersion(c.stat))
                     ELSE ZkCreate(zkNodes, c.user, c.json)
          IN /\ zkNodes' = res.nodes
             /\ ReturnFromWrite(t, res.err)
    /\ UNCHANGED <<userChainMap, lastPUID, rwWriter, lockLog, extWrites>>
    /\ UNCHANGED notTaskVars

\* another client of Zookeeper writes a node of the watch directory
ExternalWrite ==
    /\ extWrites < MaxExt
    /\ extWrites' = extWrites + 1
    /\ \E u \in Users, ch \in Chains :
          LET data == [NoJSON EXCEPT !.chain = ch]
              res == IF u \in DOMAIN zkNodes THEN ZkSet(zkNodes, u, data, -1)
                     ELSE ZkCreate(zkNodes, u, data)
          IN zkNodes' = res.nodes
    /\ UNCHANGED <<userChainMap, lastPUID, pc, call, rwReaders, rwWriter, rwPending, lockLog>>
    /\ UNCHANGED notTaskVars

\* ---- FetchUserIDList as a task ---------------------------------------------
\* a cron task calls FetchUserIDList(chain, true)
CallFetch(t) ==
    /\ pc[t] = "idle"
    /\ \E ch \in Chains :
          call' = [call EXCEPT ![t] = [NoArgs EXCEPT !.op = "FetchUserIDList",
                                                     !.outer = "FetchUserIDList",
                                                     !.chain = ch]]
    /\ pc' = [pc EXCEPT ![t] = "cursor"]
    /\ UNCHANGED <<userChainMap, zkNodes, lastPUID, rwReaders, rwWriter, rwPending, lockLog,
                   extWrites>>
    /\ UNCHANGED notTaskVars

\* lines 240-244: manager.lastPUID[chain] is read and, if missing, set to 0;
\* the mutex is not taken
Cursor(t) ==
    /\ pc[t] = "cursor"
    /\ lastPUID' = IF call[t].chain \in DOMAIN lastPUID THEN lastPUID
                   ELSE Put(lastPUID, call[t].chain, 0)
    /\ pc' = [pc EXCEPT ![t] = "http"]
    /\ UNCHANGED <<userChainMap, zkNodes, call, rwReaders, rwWriter, rwPending, lockLog,
                   extWrites>>
    /\ UNCHANGED notTaskVars

\* the error FetchUserIDList returns for a body, "none" when it reaches the loop
IDListFailure(b) ==
    IF b.kind = "httpfail" THEN "HTTP Request Failed"
    ELSE IF ~UnmarshalIDMap(b).ok /\ ~UnmarshalIDMapEmpty(b).ok THEN "Parse Result Failed"
    ELSE IF ~UnmarshalIDMap(b).ok THEN "nil"
    ELSE IF UnmarshalIDMap(b).ErrNo # 0 THEN "API Returned a Error"
    ELSE "none"

\* lines 247-281: the request, the parse and the entry into the loop, which
\* calls SetPUID for the first pair
Http(t) ==
    /\ pc[t] = "http"
    /\ \E b \in IDListBodies :
          IF IDListFailure(b) # "none"
          THEN /\ call' = [call EXCEPT ![t] = Returned(@, IDListFailure(b))]
               /\ pc' = [pc EXCEPT ![t] = "done"]
               /\ rwPending' = rwPending
          ELSE \E order \in Orders(DOMAIN b.data) :
                  LET calls == IDListCalls(b.data, order, call[t].chain) IN
                  IF calls = <<>>
                  THEN /\ call' = [call EXCEPT ![t] = Returned(@, "nil")]
                       /\ pc' = [pc EXCEPT ![t] = "done"]
                       /\ rwPending' = rwPending
                  ELSE /\ call' = [call EXCEPT ![t] = [@ EXCEPT !.op = "SetPUID",
                                                                !.user = calls[1].user,
                                                                !.puid = calls[1].puid,
                                                                !.todo = calls]]
                       /\ pc' = [pc EXCEPT ![t] = "lock"]
                       /\ rwPending' = rwPending \cup {t}
    /\ UNCHANGED <<userChainMap, zkNodes, lastPUID, rwReaders, rwWriter, lockLog, extWrites>>
    /\ UNCHANGED notTaskVars

\* lines 285-288: the cursor is compared and advanced, the mutex not taken;
\* then WriteToZK is called
Advance(t) ==
    /\ pc[t] = "advance"
    /\ lastPUID' = Put(lastPUID, call[t].chain,
                       AdvanceCursor(LastPUIDValue(lastPUID, call[t].chain), call[t].puid))
    /\ call' = [call EXCEPT ![t].op = "WriteToZK"]
    /\ pc' = [pc EXCEPT ![t] = "rlock"]
    /\ UNCHANGED <<userChainMap, zkNodes, rwReaders, rwWriter, rwPending, lockLog, extWrites>>
    /\ UNCHANGED notTaskVars

\* the task's next statement assigns to manager.lastPUID
WritesCursor(t) ==
    \/ pc[t] = "cursor" /\ call[t].chain \notin DOMAIN lastPUID
    \/ pc[t] = "advance" /\ call[t].puid > LastPUIDValue(lastPUID, call[t].chain)

\* the task's next statement reads or assigns manager.lastPUID
AccessesCursor(t) == pc[t] \in {"cursor", "advance"}

\* two tasks are in manager.lastPUID at once and one of them assigns: the Go
\* runtime may stop the process ("concurrent map writes")
ConcurrentMapAccess ==
    /\ \E t \in Tasks, u \in Tasks :
          /\ t # u
          /\ WritesCursor(t)
          /\ AccessesCursor(u)
    /\ pc' = [t \in Tasks |-> "crashed"]
    /\ UNCHANGED <<userChainMap, zkNodes, lastPUID, call, rwReaders, rwWriter, rwPending,
                   lockLog, extWrites>>
    /\ UNCHANGED notTaskVars

\* a step of a task inside SetPUID, SetChain, SetSubPool or WriteToZK, or
\* inside ReadFromZK from its Lock() on
Step(t) ==
    \/ Lock(t) \/ Lookup(t) \/ Assign(t)
    \/ RLock(t) \/ WLookup(t) \/ Exists(t) \/ Write(t)

\* the tasks call SetPUID, SetChain, SetSubPool, ReadFromZK, WriteToZK and
\* FlushAllToZK, next to other clients of Zookeeper
NextTasks ==
    \/ \E t \in Tasks :
          \/ CallSet(t) \/ CallReadFromZK(t) \/ CallWrite(t)
          \/ ZkGet(t) \/ RequestLock(t) \/ Range(t)
          \/ Step(t)
    \/ ExternalWrite

\* the tasks are cron jobs that call FetchUserIDList
NextCron ==
    \/ \E t \in Tasks :
          CallFetch(t) \/ Cursor(t) \/ Http(t) \/ Advance(t) \/ Step(t)
    \/ ConcurrentMapAccess

\* the manager before the tasks start: empty, or holding the record that
\* SetPUID(a, btc, 1) leaves, written to Zookeeper by WriteToZK or not yet
SeedUser == <<"a">>

SeedCall == [NoArgs EXCEPT !.op = "SetPUID", !.user = SeedUser, !.chain = "btc", !.puid = 1]

Seeds ==
    LET map == ApplyCall(<<>>, SeedCall) IN
    {[map |-> <<>>, nodes |-> <<>>, log |-> <<>>],
     [map |-> map, nodes |-> <<>>, log |-> <<LogEntry(SeedCall)>>],
     [map |-> map, nodes |-> ApplyWriteToZK(map, <<>>, SeedUser, TRUE).nodes,
      log |-> <<LogEntry(SeedCall)>>]}

InitTaskVars ==
    /\ pc = [t \in Tasks |-> "idle"]
    /\ call = [t \in Tasks |-> NoArgs]
    /\ rwReaders = [t \in Tasks |-> 0]
    /\ rwWriter = "none"
    /\ rwPending = {}
    /\ extWrites = 0
    /\ \E seed \in Seeds :
          /\ userChainMap = seed.map
          /\ zkNodes = seed.nodes
          /\ lockLog = seed.log

NextManager ==
    SetPUID \/ SetChain \/ SetSubPool \/ ReadFromZK \/ ReadFromZKFailed \/ WriteToZK

(***************************************************************************)
(* Specifications                                                          *)
(***************************************************************************)
\* the variables of a part that a specification does not move
SwitcherIdle ==
    /\ ChainNameMap = <<>>
    /\ currentChainName = ""
    /\ commandID = 0
    /\ sent = <<>>
    /\ audit = <<>>
    /\ running = TRUE
    /\ oldChainName = ""
    /\ bestChain = ""
    /\ coins = NoCoins
    /\ passNo = 0
    /\ responses = 0

NameIdle ==
    /\ userName = <<>>
    /\ regularName = <<>>
    /\ regularTwice = <<>>
    /\ nameStep = 0

ManagerIdle == InitManagerVars

CoinMapIdle ==
    /\ lastRequestDate = 0
    /\ coinInterval = 1
    /\ regNow = 1
    /\ regCoin = <<>>
    /\ coinUrl = <<>>
    /\ coinBody = [kind |-> "none"]
    /\ lastOKDate = <<>>
    /\ coinCalls = 0

EnvIdle ==
    /\ regIDs = [c \in Chains |-> <<>>]
    /\ zkUp = TRUE

TasksIdle ==
    /\ pc = [t \in Tasks |-> "idle"]
    /\ call = [t \in Tasks |-> NoArgs]
    /\ rwReaders = [t \in Tasks |-> 0]
    /\ rwWriter = "none"
    /\ rwPending = {}
    /\ lockLog = <<>>
    /\ extWrites = 0

InitSwitcher ==
    /\ InitSwitcherVars /\ NameIdle /\ ManagerIdle /\ CoinMapIdle /\ TasksIdle /\ EnvIdle
    /\ caseInsensitive = FALSE

SpecSwitcher == InitSwitcher /\ [][NextSwitcher]_vars

\* the decision loop next to the response-drain task, under the
\* configuration that renames A to chainA and B to chainB
InitSwitcherTasks ==
    /\ InitSwitcher
    /\ ChainNameMap = [k \in ChainKeys |-> IF k = "A" THEN "chainA" ELSE "chainB"]

SpecSwitcherTasks == InitSwitcherTasks /\ [][NextSwitcherTasks]_vars

\* ChainNameMap is decoded from the configuration file as map[string]string,
\* so a key may be renamed to the empty string as well
RenameValues == ChainNames \cup {""}

\* the decision loop under the configurations that rename at least one
\* telemetry key to the empty string
InitSwitcherNames ==
    /\ ChainNameMap \in {m \in PartialFns(ChainKeys, RenameValues) :
                              \E k \in DOMAIN m : m[k] = ""}
    /\ currentChainName = ""
    /\ commandID = 0
    /\ sent = <<>>
    /\ audit = <<>>
    /\ running = TRUE
    /\ oldChainName = ""
    /\ bestChain = ""
    /\ coins = NoCoins
    /\ passNo = 0
    /\ responses = 0
    /\ NameIdle /\ ManagerIdle /\ CoinMapIdle /\ TasksIdle /\ EnvIdle
    /\ caseInsensitive = FALSE

SpecSwitcherNames == InitSwitcherNames /\ [][NextSwitcher]_vars

InitName ==
    /\ InitNameVars /\ SwitcherIdle /\ ManagerIdle /\ CoinMapIdle /\ TasksIdle /\ EnvIdle
    /\ caseInsensitive \in BOOLEAN

SpecName == InitName /\ [][NextName]_vars

InitManager ==
    /\ InitManagerVars /\ SwitcherIdle /\ NameIdle /\ CoinMapIdle /\ TasksIdle /\ EnvIdle
    /\ caseInsensitive \in BOOLEAN

SpecManager == InitManager /\ [][NextManager]_vars

SpecIDList == InitManager /\ [][NextIDList]_vars

\* the coin-map passes next to the user-coin registry, with case-sensitive
\* user names: no two punames of the registry share a record
InitCoinMap ==
    /\ InitManagerVars /\ InitCoinVars /\ SwitcherIdle /\ NameIdle /\ TasksIdle /\ EnvIdle
    /\ caseInsensitive = FALSE

SpecCoinMap == InitCoinMap /\ [][NextCoinMap]_vars

\* the tasks that call the manager concurrently, with case-sensitive names
InitTasks ==
    /\ InitTaskVars
    /\ lastPUID = <<>>
    /\ url = [chain |-> "", last_id |-> <<>>]
    /\ body = [kind |-> "none"]
    /\ fetchErr = "nil"
    /\ idCalls = [c \in Chains |-> 0]
    /\ observedMax = [c \in Chains |-> 0]
    /\ firstChain = <<>>
    /\ latestID = <<>>
    /\ disturbed = {}
    /\ zkCall = NoCall
    /\ mgrOps = 0
    /\ SwitcherIdle /\ NameIdle /\ CoinMapIdle /\ EnvIdle
    /\ caseInsensitive = FALSE

SpecTasks == InitTasks /\ [][NextTasks]_vars

\* the cron jobs start on the empty manager
InitCron == InitTasks /\ userChainMap = <<>>

SpecCron == InitCron /\ [][NextCron]_vars

\* the cron jobs of FetchUserIDList next to the id registry and a store that
\* may be down; each job calls FetchUserIDList again and again
InitPoll ==
    /\ InitManagerVars /\ SwitcherIdle /\ NameIdle /\ CoinMapIdle /\ TasksIdle
    /\ regIDs = [c \in Chains |-> <<>>]
    /\ zkUp \in BOOLEAN
    /\ caseInsensitive = FALSE

SpecPoll ==
    InitPoll /\ [][NextPoll]_vars /\ \A chain \in Chains : WF_vars(PollIDList(chain))

(***************************************************************************)
(* Claims about the chain-switch decision loop (SpecSwitcher)              *)
(***************************************************************************)
\* the command handed to Kafka last
LastSent == sent[Len(sent)]

\* C1, as stated: a pass publishes a command only if it changed the current
\* chain; a pass that leaves the current chain as it was publishes no
\* command and appends no audit record.
C1_CommandOnlyOnChange ==
    [][currentChainName' = currentChainName => (sent' = sent /\ audit' = audit)]_vars

\* C2: in every pass that runs to its end a row is appended if and only if
\* the current chain changed in that pass, the row records the chain before
\* the pass as prev_chain and the chain after it as curr_chain, and the rows
\* already there are never modified or removed; the one pass that does not
\* run to its end (the insert fails and the process terminates) appends
\* nothing.
C2_OneRowPerTransition ==
    [][/\ Len(audit') >= Len(audit)
       /\ SubSeq(audit', 1, Len(audit)) = audit
       /\ Len(audit') <= Len(audit) + 1
       /\ running' => (audit' # audit <=> currentChainName' # currentChainName)
       /\ ~running' => audit' = audit
       /\ audit' # audit =>
             /\ audit'[Len(audit')].prev_chain = currentChainName
             /\ audit'[Len(audit')].curr_chain = currentChainName'
             /\ currentChainName' # currentChainName]_vars

\* C2's case: the latest pass changed the chain and its row is the last one
C2_Witness ==
    /\ running
    /\ Len(audit) = 2
    /\ oldChainName # currentChainName
    /\ audit[2].prev_chain = oldChainName
    /\ audit[2].curr_chain = currentChainName
    /\ audit[1].curr_chain = oldChainName

\* C3, as stated: in any pass where the current chain changes, one command
\* carrying the new chain is published, whether the audit write succeeded
\* or failed.
C3_PublishRegardlessOfAudit ==
    [][currentChainName' # currentChainName =>
          sent' = Append(sent, KafkaCommand(commandID', currentChainName'))]_vars

\* C3, amended: in any pass where the current chain changes and the audit
\* write succeeds, one command carrying the new chain is published; when the
\* audit write fails the process terminates and nothing is published.
C3_PublishAfterAudit ==
    [][/\ (currentChainName' # currentChainName /\ running') =>
             /\ audit' # audit
             /\ sent' = Append(sent, KafkaCommand(commandID', currentChainName'))
       /\ ~running' => (sent' = sent /\ commandID' = commandID)]_vars

\* C3's case: the latest pass changed the chain, its row was written and its
\* command names the new chain
C3_Witness ==
    /\ running
    /\ passNo > 0
    /\ oldChainName # ""
    /\ oldChainName # currentChainName
    /\ Len(audit) > 0
    /\ Len(sent) > 1
    /\ LastSent.chain_name = currentChainName

\* the telemetry keys of the latest pass that have a rename entry and a
\* positive dispatched hashrate
Qualifying == {k \in DOMAIN coins \cap DOMAIN ChainNameMap : coins[k] > 0}

\* C4: the chain a pass selects is the renamed name of a key that is in both
\* the telemetry and the rename map and whose dispatched hashrate is the
\* largest among those keys; keys without a rename entry do not count, even
\* with a larger hashrate; a pass selects nothing exactly when no such key
\* has a positive hashrate.
C4_BestChainSelection ==
    (passNo > 0 /\ coins # NoCoins) =>
        /\ bestChain = "" <=> Qualifying = {}
        /\ bestChain # "" =>
              \E k \in Qualifying :
                 /\ ChainNameMap[k] = bestChain
                 /\ \A j \in Qualifying : coins[j] <= coins[k]

\* C4's case: A has the larger hashrate and no rename entry, B is selected
C4_Witness ==
    /\ coins # NoCoins
    /\ DOMAIN coins = {"A", "B"}
    /\ coins["A"] > coins["B"]
    /\ DOMAIN ChainNameMap = {"B"}
    /\ bestChain = ChainNameMap["B"]
    /\ currentChainName = bestChain

(***************************************************************************)
(* Claims about RegularUserName (SpecName)                                 *)
(***************************************************************************)
\* the number of underscores of s
Underscores(s) == Cardinality({i \in 1..Len(s) : s[i] = "_"})

\* C5, as stated: normalising a normalised name changes nothing, whatever
\* the name and the case-insensitivity flag.
C5_Idempotent ==
    nameStep = 2 => regularTwice = regularName

\* C5, amended: normalising a normalised name changes nothing exactly when
\* the name has at most one underscore; with two or more, the second
\* application removes a further suffix.
C5_IdempotentUpToOneUnderscore ==
    nameStep = 2 =>
        /\ Underscores(userName) <= 1 => regularTwice = regularName
        /\ Underscores(userName) >= 2 =>
              /\ regularTwice # regularName
              /\ Len(regularTwice) < Len(regularName)

\* C5's case: a name with one underscore and an upper-case letter,
\* normalised twice with the flag set
C5_Witness ==
    /\ nameStep = 2
    /\ caseInsensitive
    /\ userName = <<"A", "_", "a">>
    /\ regularName = <<"a">>
    /\ regularTwice = <<"a">>

(***************************************************************************)
(* Claims about direct calls on the manager (SpecManager)                  *)
(***************************************************************************)
\* C6: for a user whose record SetChain and ReadFromZK have not touched,
\* GetChain returns the chain of the first SetPUID call, and for every chain
\* of a SetPUID call PUIDs still holds the id of the latest call for it.
C6_FirstChainWins ==
    \A u \in DOMAIN firstChain \ disturbed :
        /\ GetChain(userChainMap, u) = firstChain[u]
        /\ DOMAIN userChainMap[u].PUIDs = DOMAIN latestID[u]
        /\ \A c \in DOMAIN latestID[u] : userChainMap[u].PUIDs[c] = latestID[u][c]

\* C6's case: SetPUID for btc, then for eth: the home chain stays btc and
\* both ids are there
C6_Witness ==
    \E u \in DOMAIN firstChain \ disturbed :
        /\ firstChain[u] = "btc"
        /\ GetChain(userChainMap, u) = "btc"
        /\ DOMAIN userChainMap[u].PUIDs = {"btc", "eth"}
        /\ userChainMap[u].PUIDs["btc"] # userChainMap[u].PUIDs["eth"]

(***************************************************************************)
(* Claims about FetchUserIDList (SpecIDList)                               *)
(***************************************************************************)
\* the step is a call of FetchUserIDList for chain c
IDListCall(c) == idCalls'[c] = idCalls[c] + 1

\* C7, as stated: once PUIDs[c] of a user's record is set, no reconciliation
\* pass lowers it; a lower id from the registry leaves the higher one.
C7_PUIDNeverDecreases ==
    [][\A u \in DOMAIN userChainMap : \A c \in DOMAIN userChainMap[u].PUIDs :
          /\ u \in DOMAIN userChainMap'
          /\ c \in DOMAIN userChainMap'[u].PUIDs
          /\ userChainMap'[u].PUIDs[c] >= userChainMap[u].PUIDs[c]]_vars

\* C8, as stated: the first call for a chain sends no last_id, every later
\* call sends the largest id observed in the earlier successful responses,
\* and no last_id is sent before an id has been observed.
C8_CursorOnlyOnceObserved ==
    [][\A c \in Chains : IDListCall(c) =>
          /\ url'.chain = c
          /\ url'.last_id = IF idCalls[c] = 0 \/ observedMax[c] = 0
                            THEN <<>> ELSE <<observedMax[c]>>]_vars

\* C8, amended: the first call for a chain sends no last_id; every later
\* call sends last_id, equal to the largest id observed in the earlier
\* successful responses and to 0 when none has been observed (a first call
\* that fails or returns nothing does establish the cursor, at 0).
C8_CursorAfterFirstCall ==
    [][\A c \in Chains : IDListCall(c) =>
          /\ url'.chain = c
          /\ url'.last_id = IF idCalls[c] = 0 THEN <<>> ELSE <<observedMax[c]>>]_vars

\* C8's case: the second call for a chain, sent with the largest id of the
\* first call's response
C8_Witness ==
    \E c \in Chains :
        /\ idCalls[c] = 2
        /\ url.chain = c
        /\ url.last_id = <<2>>
        /\ body.kind = "empty"
        /\ observedMax[c] = 2
        /\ lastPUID[c] = 2

\* C9, as stated: a response with err_no # 0, of either shape, makes
\* FetchUserIDList return an error, apply no upsert and leave the cursor.
C9_ErrNoIsFailure ==
    [][\A c \in Chains :
          (IDListCall(c) /\ body'.kind \in {"keyed", "empty"} /\ body'.err_no # 0) =>
             /\ fetchErr' # "nil"
             /\ userChainMap' = userChainMap
             /\ LastPUIDValue(lastPUID', c) = LastPUIDValue(lastPUID, c)]_vars

\* C10: on the answer err_no 0, data [] FetchUserIDList returns no error,
\* upserts nothing, writes nothing to the store and leaves the value of the
\* chain's cursor as it was.
C10_EmptyResult ==
    [][\A c \in Chains :
          (IDListCall(c) /\ body'.kind = "empty" /\ body'.err_no = 0) =>
             /\ fetchErr' = "nil"
             /\ userChainMap' = userChainMap
             /\ zkNodes' = zkNodes
             /\ LastPUIDValue(lastPUID', c) = LastPUIDValue(lastPUID, c)]_vars

\* C10's case: an empty answer to a call that follows a pass with upserts
\* and store writes
C10_Witness ==
    /\ body.kind = "empty"
    /\ body.err_no = 0
    /\ fetchErr = "nil"
    /\ idCalls[url.chain] = 2
    /\ url.last_id # <<>>
    /\ lastPUID[url.chain] > 0
    /\ userChainMap # <<>>
    /\ zkNodes # <<>>

(***************************************************************************)
(* Further claims about the decision loop (SpecSwitcher)                   *)
(***************************************************************************)
\* the step is a pass of the loop that found no qualifying chain: the fetch
\* or the parse failed, or no renamed key has a positive hashrate
PassWithoutChoice ==
    /\ passNo' = passNo + 1
    /\ \/ coins' = NoCoins
       \/ {k \in DOMAIN coins' \cap DOMAIN ChainNameMap : coins'[k] > 0} = {}

\* C17: a pass that finds no qualifying chain leaves currentChainName as it
\* was and appends no audit row, and it does not halt the loop: the process
\* keeps running, and a running loop always has a further pass to make.
C17_NoChoiceNoChange ==
    /\ [][PassWithoutChoice => /\ currentChainName' = currentChainName
                               /\ audit' = audit
                               /\ running']_vars
    /\ []((running /\ passNo < MaxPass) => ENABLED PassFetchFailed)

\* C17 witness: a chain had been chosen and audited, and the latest pass
\* parsed telemetry in which no renamed key has a positive hashrate
C17_Witness ==
    /\ passNo > 1
    /\ coins # NoCoins
    /\ DOMAIN coins \cap DOMAIN ChainNameMap # {}
    /\ Qualifying = {}
    /\ currentChainName # ""
    /\ audit # <<>>
    /\ running

\* C19: the commands handed to Kafka carry the ids 1, 2, 3, ... in the order
\* in which they are sent (the first is 1, each later one is one greater
\* than the one before, no id occurs twice), commandID is the id of the
\* latest one, and a step of readResponse changes neither commandID nor
\* currentChainName.
C19_CommandIDsConsecutive ==
    /\ [](/\ commandID = Len(sent)
          /\ \A i \in 1..Len(sent) : sent[i].id = i)
    /\ [][responses' # responses =>
             /\ commandID' = commandID
             /\ currentChainName' = currentChainName
             /\ sent' = sent]_vars

\* C19 witness: three commands were sent and readResponse has run between
C19_Witness ==
    /\ Len(sent) = 3
    /\ sent[1].id = 1
    /\ sent[3].id = 3
    /\ sent[1].chain_name # sent[3].chain_name
    /\ responses > 0

(***************************************************************************)
(* Claims about the Zookeeper write-through (SpecManager)                  *)
(***************************************************************************)
\* the step is a WriteToZK call made directly on the manager
WriteToZKCall == mgrOps' = mgrOps + 1 /\ zkCall' # NoCall

\* C11: WriteToZK for a user that has no record in userChainMap returns the
\* not-found error, issues no Zookeeper call (no exists, set or create) and
\* leaves userChainMap and the Zookeeper nodes as they were.
C11_UnknownUserNoRPC ==
    [][(WriteToZKCall /\ zkCall'.user \notin DOMAIN userChainMap)
          => /\ fetchErr' = "not exists"
             /\ zkCall'.rpcs = <<>>
             /\ userChainMap' = userChainMap
             /\ zkNodes' = zkNodes]_vars

\* C11 witness: WriteToZK was called for a user without a record while
\* another user has a record and a node
C11_Witness ==
    /\ zkCall # NoCall
    /\ zkCall.user \notin DOMAIN userChainMap
    /\ fetchErr = "not exists"
    /\ userChainMap # <<>>
    /\ zkNodes # <<>>

(***************************************************************************)
(* Claims about the coin-map passes (SpecCoinMap)                          *)
(***************************************************************************)
\* the step is a call of FetchUserCoinMap
CoinMapCall == coinCalls' = coinCalls + 1

\* C15: a FetchUserCoinMap request carries no last_date before the first
\* successful response and afterwards the now_date of the latest successful
\* response minus FetchUserCoinIntervalSeconds; a failed request leaves the
\* cursor as it was; a successful one stores the response's now_date, is
\* handed every registry change made in or after the second of the previous
\* successful response, and leaves every registry user with the chain the
\* registry holds.
C15_OverlappingWindow ==
    [][CoinMapCall =>
          /\ coinUrl' = IF lastOKDate = <<>> THEN <<>>
                        ELSE <<lastOKDate[1] - coinInterval>>
          /\ fetchErr' # "nil" => /\ lastRequestDate' = lastRequestDate
                                  /\ lastOKDate' = lastOKDate
                                  /\ userChainMap' = userChainMap
          /\ fetchErr' = "nil" =>
                /\ lastRequestDate' = coinBody'.now_date
                /\ lastOKDate' = <<coinBody'.now_date>>
                /\ \A u \in DOMAIN regCoin :
                      /\ (lastOKDate = <<>> \/ regCoin[u].date >= lastOKDate[1])
                            => u \in DOMAIN coinBody'.user_coin
                      /\ GetChain(userChainMap', RegularUserName(u, caseInsensitive))
                            = regCoin[u].chain]_vars

\* C15 witness: the second successful pass, one second after the first, was
\* handed and has applied a change made in the second of the first
C15_Witness ==
    /\ coinCalls >= 2
    /\ fetchErr = "nil"
    /\ coinUrl # <<>>
    /\ coinBody.kind = "json"
    /\ \E u \in DOMAIN coinBody.user_coin :
          /\ regCoin[u].date = coinUrl[1] + coinInterval
          /\ regCoin[u].date < regNow
          /\ GetChain(userChainMap, RegularUserName(u, caseInsensitive)) = regCoin[u].chain
          /\ regCoin[u].chain = "eth"

(***************************************************************************)
(* Claims about concurrent callers of the manager (SpecTasks, SpecCron)    *)
(***************************************************************************)
\* the node of the call's user is no longer as the call's Exists found it
NodeMoved(c) ==
    IF c.stat.exists
    THEN c.user \notin DOMAIN zkNodes \/ zkNodes[c.user].version # c.stat.version
    ELSE c.user \in DOMAIN zkNodes

\* C12: when the node of a WriteToZK call was created, or its version has
\* changed, between the call's Exists and its Set or Create (by another
\* WriteToZK or by another client of Zookeeper), the Set or Create changes
\* no node and the call returns an error.
C12_NoSilentClobber ==
    [][\A t \in Tasks :
          (pc[t] = "write" /\ pc'[t] # "write" /\ NodeMoved(call[t]))
             => /\ zkNodes' = zkNodes
                /\ pc'[t] = "done"
                /\ call'[t].err # "nil"]_vars

\* C12 witness: a WriteToZK call has returned a version conflict and the
\* node holds a body other than the one of the caller's record
C12_Witness ==
    \E t \in Tasks :
       /\ pc[t] = "done"
       /\ call[t].op = "WriteToZK"
       /\ call[t].err = "zk: version conflict"
       /\ zkNodes[call[t].user].data # Marshal(userChainMap[call[t].user])

\* the task is inside ReadFromZK, has the node's body and has not yet
\* assigned it to the record
ReadInFlight(t, label) ==
    call[t].op = "ReadFromZK" /\ label \in {"request", "lock", "lookup", "assign"}

\* C13: from the moment ReadFromZK has the node's body until it has assigned
\* it, no step changes the record of that user: the Get and the assignment
\* are one critical section.
C13_ReadIsOneCriticalSection ==
    [][\A t \in Tasks :
          (ReadInFlight(t, pc[t]) /\ ReadInFlight(t, pc'[t]))
             => InfoOf(userChainMap', call[t].user) = InfoOf(userChainMap, call[t].user)]_vars

\* the calls of lockLog that are for the user
UserLog(u) == SelectSeq(lockLog, LAMBDA e : e.user = u)

\* the map after the calls of a log, run one after the other
RECURSIVE Replay(_, _)
Replay(map, log) ==
    IF log = <<>> THEN map ELSE Replay(ApplyCall(map, Head(log)), Tail(log))

\* C14: whenever no call is inside the write lock, the record of each user
\* is the one that the user's own calls produce when run alone in the order
\* in which they took the lock, whatever calls for other users ran between
\* them; and the field set by the user's latest call holds that call's value.
C14_RecordsFollowLockOrder ==
    rwWriter = "none" =>
       \A u \in Users :
          LET log == UserLog(u) IN
          /\ u \in DOMAIN userChainMap <=> log # <<>>
          /\ log # <<>> =>
                LET e == log[Len(log)] IN
                /\ userChainMap[u] = Replay(<<>>, log)[u]
                /\ e.op = "SetChain" => userChainMap[u].ChainName = e.chain
                /\ e.op = "SetSubPool" => userChainMap[u].SubPoolName = e.subpool
                /\ e.op = "SetPUID" => userChainMap[u].PUIDs[e.chain] = e.puid

\* C14 witness: two setters for different users, and a setter after another
\* call for the same user, have run to their end
C14_Witness ==
    /\ \A t \in Tasks : pc[t] = "done" /\ call[t].op \in {"SetPUID", "SetChain", "SetSubPool"}
    /\ call["t1"].user # call["t2"].user
    /\ Len(UserLog(SeedUser)) = 2
    /\ Len(lockLog) = 3

\* C16: a task whose next statement reads or assigns manager.lastPUID holds
\* the lock, the write lock if it assigns; a task whose next statement reads
\* userChainMap holds the lock, the write lock if it assigns.
C16_CursorsUnderLock ==
    \A t \in Tasks :
       /\ AccessesCursor(t) => HoldsLock(t)
       /\ WritesCursor(t) => rwWriter = t
       /\ pc[t] \in {"lookup", "wlookup", "range"} => HoldsLock(t)
       /\ pc[t] = "assign" => rwWriter = t

\* a task inside a call takes a step
Progress == \E t \in Tasks : ZkGet(t) \/ RequestLock(t) \/ Range(t) \/ Step(t)

\* C20: FlushAllToZK cannot deadlock with a call that takes the write lock:
\* while a task is inside a call, some task inside a call can take a step.
C20_FlushCannotDeadlock ==
    (\E t \in Tasks : pc[t] \notin {"idle", "done"}) => ENABLED Progress

(***************************************************************************)
(* Claims about the cron job and the store (SpecPoll)                      *)
(***************************************************************************)
\* every user of userChainMap has a node that holds the user's record
StoreMatchesMemory ==
    \A u \in DOMAIN userChainMap :
       u \in DOMAIN zkNodes /\ zkNodes[u].data = Marshal(userChainMap[u])

\* C18: a write-through that failed is made again by a later iteration of
\* the cron job: once Zookeeper answers for good (the id registry hands out
\* finitely many ids, so it stops changing), the node of every user of
\* userChainMap eventually holds the user's record, and keeps holding it.
C18_FailedWriteRetried == <>[]zkUp => <>[]StoreMatchesMemory

(***************************************************************************)
(* The current chain stays set (SpecSwitcher, SpecSwitcherNames)           *)
(***************************************************************************)
\* the step hands a command to Kafka
Publishes == sent' # sent

\* C21: once currentChainName is non-empty it is non-empty after every later
\* pass, whatever the telemetry, the rename map or the failures; every
\* command handed to Kafka carries a non-empty chain_name, equal to
\* currentChainName as it is when the command is sent; and no command is
\* sent while currentChainName is still empty.
C21_ChainStaysSet ==
    /\ [][currentChainName # "" => currentChainName' # ""]_vars
    /\ [][Publishes => /\ Len(sent') = Len(sent) + 1
                       /\ SubSeq(sent', 1, Len(sent)) = sent
                       /\ sent'[Len(sent')].chain_name = currentChainName'
                       /\ currentChainName' # ""]_vars
    /\ [](currentChainName = "" => sent = <<>>)
    /\ [](\A i \in 1..Len(sent) : sent[i].chain_name # "")

\* C21 witness: a chain had been chosen, and in the latest pass the key with
\* the largest hashrate is renamed to the empty string, so that bestChain is
\* empty; the chain chosen before is still current and was sent again
C21_Witness ==
    /\ passNo > 1
    /\ coins # NoCoins
    /\ \E k \in DOMAIN coins \cap DOMAIN ChainNameMap :
          /\ ChainNameMap[k] = ""
          /\ coins[k] > 0
          /\ \A j \in DOMAIN coins : coins[j] <= coins[k]
    /\ bestChain = ""
    /\ currentChainName # ""
    /\ Len(sent) > 1
    /\ sent[Len(sent)].chain_name = currentChainName

====
